---- MODULE Spec2Model ----
(***************************************************************************)
(* Model of the client-side query pipeline of odata-genius.                *)
(*                                                                         *)
(* Part 1: executeLocalQuery (src/services/fileService.ts), the local      *)
(* executor of the $filter / $orderby / $select / $top subset of OData.    *)
(*                                                                         *)
(* Text is modelled as a sequence of one-character strings, so that        *)
(* split, trim, quote stripping, String() and Number() are computed and    *)
(* not assumed.  A JavaScript value is a record [t, n, s]: t is its type   *)
(* ("undef", "num", "nan", "str"), n its number, s its characters.  A row  *)
(* (DataPoint) is an ordered list of [k, v] fields, in Object.keys order.  *)
(*                                                                         *)
(* Part 2: WidgetCard (src/components/WidgetCard.tsx): the key resolution, *)
(* the free-text filter, the grouping and the total and average computed   *)
(* on every render, and the loads started by its effect.                   *)
(*                                                                         *)
(* Part 3: fixODataQuery (src/services/geminiService.ts, and the version   *)
(* of src/unnamed/part_003 that returns a configuration with a sqlQuery    *)
(* as it is).                                                              *)
(*                                                                         *)
(* Each part has its own specification; the variables of the other parts   *)
(* rest at their idle values.  SheetSpec joins parts 1 and 2: a widget     *)
(* that runs executeLocalQuery on an uploaded sheet and renders the rows   *)
(* it returns.  LoadFairSpec is LoadSpec with every awaited fetch settling *)
(* in the end.                                                             *)
(***************************************************************************)
EXTENDS Integers, Sequences, FiniteSets

VARIABLES
  data,         \* the caller's collection (fileData / _localDataRef)
  odataQuery,   \* the query text of the last call, split at '?', see Queries
  called,       \* whether executeLocalQuery has been called
  directives,   \* the locals filter, orderby, select and top of that call
  afterFilter,  \* local `result` after step 2 ($filter)
  afterSort,    \* local `result` after step 3 ($orderby)
  afterSelect,  \* local `result` after step 4 ($select)
  result,       \* the returned collection
  raised,       \* whether the call ended by throwing
  config,       \* WidgetCard props.config: xAxisKey and dataKey
  widgetData,   \* WidgetCard state `data`
  loading,      \* WidgetCard state `loading`
  filterValue,  \* WidgetCard state `filterValue`
  xKey,         \* WidgetCard const `xKey` of the last render
  mainKey,      \* WidgetCard const `mainKey` of the last render
  filtered,     \* processedData: local `result` after step 1 (filter)
  needsAggregation, \* processedData: local `needsAggregation`
  processedData,\* WidgetCard memo `processedData` of the last render
  total,        \* WidgetCard memo `total` of the last render
  average,      \* WidgetCard memo `average` of the last render, a fraction
  mounted,      \* whether the WidgetCard is on the page
  loads,        \* the loadData calls of its effect: each one's isMounted, and
                \* whether its fetch is still awaited
  lastSettled,  \* the last loadData call that ran to its end, and what it set
  aiConfig,     \* the configuration object parsed from the AI response
  aiGiven,      \* that object as it was when fixODataQuery was called
  aiFixed,      \* whether fixODataQuery has returned
  aiService     \* the service file whose fixODataQuery was called

queryVars == <<data, odataQuery, called, directives, afterFilter, afterSort, afterSelect, result, raised>>

widgetVars ==
  <<config, widgetData, loading, filterValue, xKey, mainKey, filtered, needsAggregation,
    processedData, total, average, mounted, loads, lastSettled>>

fixVars == <<aiConfig, aiGiven, aiFixed, aiService>>

vars == <<queryVars, widgetVars, fixVars>>

(***************************************************************************)
(* Bounds                                                                  *)
(***************************************************************************)
MaxRows == 3

\* the loads one widget starts
MaxLoads == 3

(***************************************************************************)
(* Text                                                                    *)
(***************************************************************************)
\* The characters in use, in increasing UTF-16 code unit order.
CodeUnits ==
  << " ", "$", "&", "'", "(", ")", "+", ",", "-", "/", "0", "1", "2", "3", "4", "5", "6", "7", "8", "9",
     "=", "?", "D", "N", "X", "Y", "Z", "a", "b", "c", "d", "e", "f", "g", "i", "l", "n",
     "o", "q", "r", "s", "t", "u" >>

CodeUnit(c) == CHOOSE i \in 1..Len(CodeUnits) : CodeUnits[i] = c

Digits == <<"0", "1", "2", "3", "4", "5", "6", "7", "8", "9">>

IsDigit(c) == \E i \in 1..10 : Digits[i] = c

DigitValue(c) == (CHOOSE i \in 1..10 : Digits[i] = c) - 1

\* String.prototype.split(sep) for a one-character separator: the pieces
\* between the occurrences of sep, empty pieces included.
Split(s, sep) ==
  LET at == {i \in 1..Len(s) : s[i] = sep}
      cut(k) == IF k = 0 THEN 0
                ELSE IF k > Cardinality(at) THEN Len(s) + 1
                ELSE CHOOSE i \in at : Cardinality({j \in at : j < i}) = k - 1
  IN  [k \in 1..(Cardinality(at) + 1) |-> SubSeq(s, cut(k - 1) + 1, cut(k) - 1)] \o <<>>

\* String.prototype.trim, for the space character.
RECURSIVE TrimStart(_)
TrimStart(s) == IF s # <<>> /\ Head(s) = " " THEN TrimStart(Tail(s)) ELSE s

RECURSIVE TrimEnd(_)
TrimEnd(s) ==
  IF s # <<>> /\ s[Len(s)] = " " THEN TrimEnd(SubSeq(s, 1, Len(s) - 1)) ELSE s

Trim(s) == TrimEnd(TrimStart(s))

\* valRaw.replace(/'/g, "")
StripQuotes(s) == SelectSeq(s, LAMBDA c : c # "'")

\* s < t on strings: comparison by code units, a proper prefix first.
RECURSIVE StrLess(_, _)
StrLess(s, t) ==
  IF t = <<>> THEN FALSE
  ELSE IF s = <<>> THEN TRUE
  ELSE IF Head(s) = Head(t) THEN StrLess(Tail(s), Tail(t))
  ELSE CodeUnit(Head(s)) < CodeUnit(Head(t))

(***************************************************************************)
(* JavaScript values                                                       *)
(***************************************************************************)
Undefined == [t |-> "undef", n |-> 0, s |-> <<>>]
NaN == [t |-> "nan", n |-> 0, s |-> <<>>]
Num(i) == [t |-> "num", n |-> i, s |-> <<>>]
Str(s) == [t |-> "str", n |-> 0, s |-> s]

RECURSIVE DigitsOf(_)
DigitsOf(i) == IF i < 10 THEN <<Digits[i + 1]>> ELSE Append(DigitsOf(i \div 10), Digits[(i % 10) + 1])

RECURSIVE ParseDigits(_, _)
ParseDigits(s, acc) ==
  IF s = <<>> THEN acc ELSE ParseDigits(Tail(s), 10 * acc + DigitValue(Head(s)))

AllDigits(s) == s # <<>> /\ \A i \in 1..Len(s) : IsDigit(s[i])

\* Number(text): blank is 0, an optionally signed run of digits is that integer,
\* any other text is NaN.
StringToNumber(s) ==
  LET u == Trim(s) IN
    IF u = <<>> THEN Num(0)
    ELSE IF AllDigits(u) THEN Num(ParseDigits(u, 0))
    ELSE IF Head(u) = "-" /\ AllDigits(Tail(u)) THEN Num(0 - ParseDigits(Tail(u), 0))
    ELSE NaN

\* Number(v)
ToNumber(v) ==
  CASE v.t = "num" -> v
    [] v.t = "str" -> StringToNumber(v.s)
    [] OTHER -> NaN

\* String(v), as characters
JsString(v) ==
  CASE v.t = "str" -> v.s
    [] v.t = "num" -> IF v.n < 0 THEN <<"-">> \o DigitsOf(0 - v.n) ELSE DigitsOf(v.n)
    [] v.t = "nan" -> <<"N", "a", "N">>
    [] OTHER -> <<"u", "n", "d", "e", "f", "i", "n", "e", "d">>

\* a < b: two strings compare by code units, any other pair as numbers, and a
\* comparison with NaN is false.
JsLess(a, b) ==
  IF a.t = "str" /\ b.t = "str" THEN StrLess(a.s, b.s)
  ELSE LET x == ToNumber(a)
           y == ToNumber(b)
       IN  x.t = "num" /\ y.t = "num" /\ x.n < y.n

\* a > b
JsGreater(a, b) == JsLess(b, a)

(***************************************************************************)
(* Rows                                                                    *)
(***************************************************************************)
\* row[key]
Lookup(row, key) ==
  IF \E i \in 1..Len(row) : row[i].k = key
  THEN row[CHOOSE i \in 1..Len(row) : row[i].k = key].v
  ELSE Undefined

\* row[key] = v
SetField(row, key, v) ==
  IF \E i \in 1..Len(row) : row[i].k = key
  THEN [i \in 1..Len(row) |-> IF row[i].k = key THEN [k |-> key, v |-> v] ELSE row[i]] \o <<>>
  ELSE Append(row, [k |-> key, v |-> v])

\* Object.keys(row)
Keys(row) == [i \in 1..Len(row) |-> row[i].k] \o <<>>

(***************************************************************************)
(* executeLocalQuery, step 1: the query parameters                         *)
(***************************************************************************)
\* String.prototype.indexOf(c), counted from 1; 0 when absent.
IndexOf(s, c) ==
  IF \E i \in 1..Len(s) : s[i] = c
  THEN CHOOSE i \in 1..Len(s) : s[i] = c /\ \A j \in 1..(i - 1) : s[j] # c
  ELSE 0

\* URLSearchParams decoding of a name or a value: '+' is a space (the inputs
\* carry no percent escapes).
FormDecode(s) == [i \in 1..Len(s) |-> IF s[i] = "+" THEN " " ELSE s[i]] \o <<>>

\* One name=value piece of the query text.
ParsePair(piece) ==
  LET eq == IndexOf(piece, "=") IN
    IF eq = 0 THEN [name |-> FormDecode(piece), value |-> <<>>]
    ELSE [name |-> FormDecode(SubSeq(piece, 1, eq - 1)),
          value |-> FormDecode(SubSeq(piece, eq + 1, Len(piece)))]

\* new URLSearchParams(text): the non-empty '&'-separated pieces, in text order.
ParseParams(text) ==
  LET pieces == SelectSeq(Split(text, "&"), LAMBDA x : x # <<>>)
  IN  [i \in 1..Len(pieces) |-> ParsePair(pieces[i])] \o <<>>

\* new URLSearchParams(odataQuery.split('?')[1]): without a '?' there is no
\* second part, and no parameter.
Params(q) ==
  LET segs == Split(q, "?") IN
    IF Len(segs) >= 2 THEN ParseParams(segs[2]) ELSE <<>>

\* params.get(name): the value of the first pair of that name, or null.
Get(ps, name) ==
  IF \E i \in 1..Len(ps) : ps[i].name = name
  THEN [present |-> TRUE,
        s |-> ps[CHOOSE i \in 1..Len(ps) :
                   ps[i].name = name /\ \A j \in 1..(i - 1) : ps[j].name # name].value]
  ELSE [present |-> FALSE, s |-> <<>>]

\* if (x) on a string or null
Truthy(g) == g.present /\ g.s # <<>>

(***************************************************************************)
(* executeLocalQuery, step 2: $filter                                      *)
(***************************************************************************)
\* Whether new RegExp(`\\b${key}\\b`, 'g') compiles.  Of the pattern syntax only
\* grouping is modelled: the parentheses of the key must balance.
Balanced(s) ==
  LET depth(i) == Cardinality({j \in 1..i : s[j] = "("}) - Cardinality({j \in 1..i : s[j] = ")"})
  IN  depth(Len(s)) = 0 /\ \A i \in 1..Len(s) : depth(i) >= 0

RegExpCompiles(key) == Balanced(key)

\* The single-condition fallback: the value returned for a three-part filter.
SingleCondition(row, parts) ==
  LET key == parts[1]
      op == parts[2]
      valRaw == parts[3]
      val == StripQuotes(valRaw)
      rowVal == Lookup(row, key)
  IN  CASE op = <<"e", "q">> -> JsString(rowVal) = val
        [] op = <<"n", "e">> -> JsString(rowVal) # val
        [] op = <<"g", "t">> -> JsGreater(ToNumber(rowVal), ToNumber(Str(val)))
        [] op = <<"l", "t">> -> JsLess(ToNumber(rowVal), ToNumber(Str(val)))
        [] OTHER -> TRUE

\* The try block with a filter that does not split in three failing closed.
TryFilterRow_FailClosed(row, filter) ==
  IF \E i \in 1..Len(Keys(row)) : ~RegExpCompiles(Keys(row)[i])
  THEN [threw |-> TRUE, ret |-> FALSE]
  ELSE LET parts == Split(filter, " ") IN
         IF Len(parts) = 3
         THEN [threw |-> FALSE, ret |-> SingleCondition(row, parts)]
         ELSE [threw |-> FALSE, ret |-> FALSE]

\* The body of the try block of the filter callback: threw tells whether it
\* ended by an exception, ret is the value it returned otherwise.  The rewritten
\* jsCondition is never read; building it compiles one pattern per key of the row.
TryFilterRow(row, filter) ==
  IF \E i \in 1..Len(Keys(row)) : ~RegExpCompiles(Keys(row)[i])
  THEN [threw |-> TRUE, ret |-> FALSE]
  ELSE LET parts == Split(filter, " ") IN
         IF Len(parts) = 3
         THEN [threw |-> FALSE, ret |-> SingleCondition(row, parts)]
         ELSE [threw |-> FALSE, ret |-> TRUE]

\* The filter callback without its catch block: the exception leaves it.
FilterRow_Uncaught(row, filter) == TryFilterRow(row, filter)

\* The filter callback, try and catch: threw tells whether an exception leaves it.
FilterRow(row, filter) ==
  LET r == TryFilterRow(row, filter) IN
    IF r.threw THEN [threw |-> FALSE, ret |-> TRUE] ELSE r

\* Array.prototype.filter with that callback: a new array.
FilterRows(arr, filter) == SelectSeq(arr, LAMBDA row : FilterRow(row, filter).ret)

FilterThrows(arr, filter) == \E i \in 1..Len(arr) : FilterRow(arr[i], filter).threw

(***************************************************************************)
(* executeLocalQuery, step 3: $orderby                                     *)
(***************************************************************************)
\* The comparator handed to sort.
Compare(a, b, key, dir) ==
  LET x == Lookup(a, key)
      y == Lookup(b, key)
  IN  IF JsLess(x, y) THEN (0 - 1) * dir
      ELSE IF JsGreater(x, y) THEN 1 * dir
      ELSE 0

\* The comparator's verdict on every pair of rows of arr: the verdict on rows
\* i and j is at (i - 1) * Len(arr) + j.
CompareAll(arr, key, dir) ==
  LET n == Len(arr)
  IN  [x \in 1..(n * n) |->
         Compare(arr[((x - 1) \div n) + 1], arr[((x - 1) % n) + 1], key, dir)] \o <<>>

\* ECMAScript's "consistent comparator", v being its verdicts on n rows: its
\* "equal" and "less" are transitive, and compatible with each other.
ConsistentComparator(v, n) ==
  LET c(i, j) == v[(i - 1) * n + j]
  IN  \A i, j, k \in 1..n :
        /\ (c(i, j) = 0 /\ c(j, k) = 0) => c(i, k) = 0
        /\ (c(i, j) < 0 /\ c(j, k) < 0) => c(i, k) < 0
        /\ (c(i, j) < 0 /\ c(j, k) = 0) => c(i, k) < 0
        /\ (c(i, j) = 0 /\ c(j, k) < 0) => c(i, k) < 0
        /\ (c(i, j) < 0) => c(j, i) > 0
        /\ (c(i, j) = 0) => c(j, i) = 0

\* The orders of 1..n
Orders(n) == {p \in [1..n -> 1..n] : \A i, j \in 1..n : i # j => p[i] # p[j]}

\* Array.prototype.sort(comparator): with a consistent comparator the one stable
\* ascending order, where a row's place is the number of rows that go before it;
\* otherwise the order is implementation-defined, any order of the same rows.
SortOutcomes(arr, key, dir) ==
  LET n == Len(arr)
      v == CompareAll(arr, key, dir)
      c(i, j) == v[(i - 1) * n + j]
      place == [i \in 1..n |->
                  1 + Cardinality({j \in 1..n : c(j, i) < 0 \/ (c(j, i) = 0 /\ j < i)})] \o <<>>
  IN  IF ConsistentComparator(v, n)
      THEN {[r \in 1..n |-> arr[CHOOSE i \in 1..n : place[i] = r]] \o <<>>}
      ELSE {[r \in 1..n |-> arr[p[r]]] \o <<>> : p \in Orders(n)}

(***************************************************************************)
(* executeLocalQuery, step 4: $select                                      *)
(***************************************************************************)
\* The projection without its test for undefined: a missing field is set too.
RECURSIVE ProjectInto_Defaulted(_, _, _)
ProjectInto_Defaulted(newRow, row, keys) ==
  IF keys = <<>> THEN newRow
  ELSE ProjectInto_Defaulted(SetField(newRow, Head(keys), Lookup(row, Head(keys))),
                             row, Tail(keys))

\* keys.forEach(k => { if (row[k] !== undefined) newRow[k] = row[k]; })
RECURSIVE ProjectInto(_, _, _)
ProjectInto(newRow, row, keys) ==
  IF keys = <<>> THEN newRow
  ELSE LET k == Head(keys) IN
         ProjectInto(IF Lookup(row, k) # Undefined THEN SetField(newRow, k, Lookup(row, k))
                     ELSE newRow,
                     row, Tail(keys))

\* select.split(',').map(s => s.trim())
SelectKeys(select) ==
  LET parts == Split(select, ",") IN [i \in 1..Len(parts) |-> Trim(parts[i])] \o <<>>

\* result.map(row => newRow): a new array of new rows.
ProjectRows(arr, select) ==
  LET keys == SelectKeys(select)
  IN  [i \in 1..Len(arr) |-> ProjectInto(<<>>, arr[i], keys)] \o <<>>

(***************************************************************************)
(* executeLocalQuery, step 5: $top                                         *)
(***************************************************************************)
\* slice with its end taken inclusive
Slice0_Inclusive(arr, end) ==
  LET len == Len(arr)
      rel == IF end.t = "num" THEN end.n + 1 ELSE 0
      final == IF rel < 0 THEN (IF len + rel < 0 THEN 0 ELSE len + rel)
               ELSE (IF rel > len THEN len ELSE rel)
  IN  SubSeq(arr, 1, final)

\* Array.prototype.slice(0, end): NaN counts as 0, a negative end counts from
\* the end of the array, and the end stops at the length.
Slice0(arr, end) ==
  LET len == Len(arr)
      rel == IF end.t = "num" THEN end.n ELSE 0
      final == IF rel < 0 THEN (IF len + rel < 0 THEN 0 ELSE len + rel)
               ELSE (IF rel > len THEN len ELSE rel)
  IN  SubSeq(arr, 1, final)

(***************************************************************************)
(* executeLocalQuery                                                       *)
(***************************************************************************)
\* Arrays are held by reference: a heap is the arrays allocated so far (the
\* first is the caller's data) and res, the one the local `result` refers to.

\* let result = data: the same array under a second name.
CopyData_Alias(d) == [arrs |-> <<d>>, res |-> 1]

\* let result = [...data]: a new array with the same rows.
CopyData(d) == [arrs |-> <<d, d>>, res |-> 2]

\* result = result.filter(...), under if (filter)
ApplyFilter(h, ps) ==
  LET filter == Get(ps, <<"$", "f", "i", "l", "t", "e", "r">>) IN
    IF Truthy(filter)
    THEN [arrs |-> Append(h.arrs, FilterRows(h.arrs[h.res], filter.s)),
          res |-> Len(h.arrs) + 1]
    ELSE h

\* The sort with a default key: without $orderby the rows are sorted on X.
ApplySort_Default(h, ps) ==
  LET orderby == Get(ps, <<"$", "o", "r", "d", "e", "r", "b", "y">>)
      parts == IF Truthy(orderby) THEN Split(orderby.s, " ") ELSE << <<"X">> >>
      key == parts[1]
      dir == IF Len(parts) >= 2 /\ parts[2] = <<"d", "e", "s", "c">> THEN 0 - 1 ELSE 1
  IN  {[h EXCEPT !.arrs[h.res] = out] : out \in SortOutcomes(h.arrs[h.res], key, dir)}

\* result.sort(...), under if (orderby): in place; one heap per order the sort
\* may leave.
ApplySort(h, ps) ==
  LET orderby == Get(ps, <<"$", "o", "r", "d", "e", "r", "b", "y">>) IN
    IF Truthy(orderby)
    THEN LET parts == Split(orderby.s, " ")
             key == parts[1]
             dir == IF Len(parts) >= 2 /\ parts[2] = <<"d", "e", "s", "c">> THEN 0 - 1 ELSE 1
         IN  {[h EXCEPT !.arrs[h.res] = out] : out \in SortOutcomes(h.arrs[h.res], key, dir)}
    ELSE {h}

\* result = result.map(...), under if (select)
ApplySelect(h, ps) ==
  LET select == Get(ps, <<"$", "s", "e", "l", "e", "c", "t">>) IN
    IF Truthy(select)
    THEN [arrs |-> Append(h.arrs, ProjectRows(h.arrs[h.res], select.s)),
          res |-> Len(h.arrs) + 1]
    ELSE h

\* result = result.slice(0, Number(top)), under if (top)
ApplyTop(h, ps) ==
  LET top == Get(ps, <<"$", "t", "o", "p">>) IN
    IF Truthy(top)
    THEN [arrs |-> Append(h.arrs, Slice0(h.arrs[h.res], ToNumber(Str(top.s)))),
          res |-> Len(h.arrs) + 1]
    ELSE h

\* const filter = params.get('$filter'), and so on: the four directive values.
Directives(ps) ==
  [filter |-> Get(ps, <<"$", "f", "i", "l", "t", "e", "r">>),
   orderby |-> Get(ps, <<"$", "o", "r", "d", "e", "r", "b", "y">>),
   select |-> Get(ps, <<"$", "s", "e", "l", "e", "c", "t">>),
   top |-> Get(ps, <<"$", "t", "o", "p">>)]

\* Whether an exception leaves the call: only the filter callback can throw.
CallThrows(d, ps) ==
  LET filter == Get(ps, <<"$", "f", "i", "l", "t", "e", "r">>) IN
    Truthy(filter) /\ FilterThrows(d, filter.s)

\* executeLocalQuery with the limit taken right after the filter, before the sort
\* and the projection.
executeLocalQuery_LimitFirst(d, q) ==
  LET ps == Params(q)
      h0 == CopyData(d)
      h1 == ApplyTop(ApplyFilter(h0, ps), ps)
  IN  {LET h3 == ApplySelect(h2, ps)
       IN  [data |-> h3.arrs[1],
            directives |-> Directives(ps),
            afterFilter |-> h1.arrs[h1.res],
            afterSort |-> h2.arrs[h2.res],
            afterSelect |-> h3.arrs[h3.res],
            result |-> h3.arrs[h3.res],
            raised |-> FALSE] : h2 \in ApplySort(h1, ps)}

\* The outcomes of executeLocalQuery(d, q): the caller's array after the call,
\* the local `result` after each step, the returned array, and whether the call
\* threw.
executeLocalQuery(d, q) ==
  LET ps == Params(q)
      h0 == CopyData(d)
      h1 == ApplyFilter(h0, ps)
  IN  IF CallThrows(d, ps)
      THEN {[data |-> h0.arrs[1], directives |-> Directives(ps), afterFilter |-> <<>>, afterSort |-> <<>>,
             afterSelect |-> <<>>, result |-> <<>>, raised |-> TRUE]}
      ELSE {LET h3 == ApplySelect(h2, ps)
                h4 == ApplyTop(h3, ps)
            IN  [data |-> h4.arrs[1],
                 directives |-> Directives(ps),
                 afterFilter |-> h1.arrs[h1.res],
                 afterSort |-> h2.arrs[h2.res],
                 afterSelect |-> h3.arrs[h3.res],
                 result |-> h4.arrs[h4.res],
                 raised |-> FALSE] : h2 \in ApplySort(h1, ps)}

(***************************************************************************)
(* WidgetCard: keys                                                        *)
(***************************************************************************)
UpperCase ==
  << "A", "B", "C", "D", "E", "F", "G", "H", "I", "J", "K", "L", "M",
     "N", "O", "P", "Q", "R", "S", "T", "U", "V", "W", "X", "Y", "Z" >>

LowerCase ==
  << "a", "b", "c", "d", "e", "f", "g", "h", "i", "j", "k", "l", "m",
     "n", "o", "p", "q", "r", "s", "t", "u", "v", "w", "x", "y", "z" >>

\* String.prototype.toLowerCase
ToLowerCase(s) ==
  [i \in 1..Len(s) |->
     IF \E u \in 1..26 : UpperCase[u] = s[i]
     THEN LowerCase[CHOOSE u \in 1..26 : UpperCase[u] = s[i]]
     ELSE s[i]] \o <<>>

\* String.prototype.includes
Includes(s, sub) ==
  \E i \in 0..(Len(s) - Len(sub)) : SubSeq(s, i + 1, i + Len(sub)) = sub

\* key in row
In(key, row) == \E i \in 1..Len(row) : row[i].k = key

KeyName == <<"n", "a", "m", "e">>
KeyValue == <<"v", "a", "l", "u", "e">>
KeyTarget == <<"t", "a", "r", "g", "e", "t">>
KeyActual == <<"a", "c", "t", "u", "a", "l">>

\* the resolution that looks at every row, not at the first one only
hasActualTarget_AnyRow(rows) == \E i \in 1..Len(rows) : In(KeyTarget, rows[i])

\* data.length > 0 && 'target' in data[0]
hasActualTarget(rows) == Len(rows) > 0 /\ In(KeyTarget, rows[1])

\* config.xAxisKey || 'name'
xKeyOf(cfg) == IF cfg.xAxisKey # <<>> THEN cfg.xAxisKey ELSE KeyName

\* hasActualTarget ? 'actual' : (config.dataKey || 'value')
mainKeyOf(cfg, rows) ==
  IF hasActualTarget(rows) THEN KeyActual
  ELSE IF cfg.dataKey # <<>> THEN cfg.dataKey ELSE KeyValue

(***************************************************************************)
(* WidgetCard: processedData                                               *)
(***************************************************************************)
\* !isNaN(Number(filterValue))
isNumericFilter(text) == StringToNumber(text).t = "num"

\* the filter that compares with > instead of >=
FilterItem_Strict(item, text, mk, xk) ==
  LET val == Lookup(item, mk)
      name == Lookup(item, xk)
  IN  IF isNumericFilter(text)
      THEN ToNumber(val).t = "num" /\ ToNumber(val).n > StringToNumber(text).n
      ELSE Includes(ToLowerCase(JsString(name)), ToLowerCase(text))

\* the callback of result.filter: Number(val) >= Number(filterValue) for a
\* numeric filter, a case-folded substring test on the name otherwise
FilterItem(item, text, mk, xk) ==
  LET val == Lookup(item, mk)
      name == Lookup(item, xk)
  IN  IF isNumericFilter(text)
      THEN ToNumber(val).t = "num" /\ ToNumber(val).n >= StringToNumber(text).n
      ELSE Includes(ToLowerCase(JsString(name)), ToLowerCase(text))

\* step 1: if (filterValue) result = result.filter(...)
FreeTextFilter(rows, text, mk, xk) ==
  IF text # <<>>
  THEN SelectSeq(rows, LAMBDA item : FilterItem(item, text, mk, xk))
  ELSE rows

\* the scan that compares neighbours only
DetectDuplicates_Adjacent(rows, xk) ==
  \E i \in 1..(Len(rows) - 1) :
    JsString(Lookup(rows[i], xk)) = JsString(Lookup(rows[i + 1], xk))

\* the duplicate scan: keySet grows row by row, the first repeat ends it
RECURSIVE ScanKeys(_, _, _, _)
ScanKeys(rows, xk, i, keySet) ==
  IF i > Len(rows) THEN FALSE
  ELSE LET key == JsString(Lookup(rows[i], xk))
       IN  IF key \in keySet THEN TRUE
           ELSE ScanKeys(rows, xk, i + 1, keySet \cup {key})

DetectDuplicates(rows, xk) == ScanKeys(rows, xk, 1, {})

\* groupedMap.get(key) || 0
MapGet_Fresh(map, key) == 0

MapGet(map, key) ==
  IF \E i \in 1..Len(map) : map[i].key = key
  THEN map[CHOOSE i \in 1..Len(map) : map[i].key = key].val
  ELSE 0

\* groupedMap.set(key, val): a new key goes last, an old one keeps its place
MapSet(map, key, val) ==
  IF \E i \in 1..Len(map) : map[i].key = key
  THEN [i \in 1..Len(map) |->
          IF map[i].key = key THEN [key |-> key, val |-> val] ELSE map[i]] \o <<>>
  ELSE Append(map, [key |-> key, val |-> val])

\* the grouping summand that counts a non-numeric value as 0
GroupValue_Zero(item, mk) ==
  LET val == ToNumber(Lookup(item, mk)) IN IF val.t = "num" THEN val.n ELSE 0

\* let val = Number(item[mainKey]); if (isNaN(val)) val = 1
GroupValue(item, mk) ==
  LET val == ToNumber(Lookup(item, mk)) IN IF val.t = "num" THEN val.n ELSE 1

\* result.forEach(item => groupedMap.set(key, (groupedMap.get(key) || 0) + val))
RECURSIVE GroupedMap(_, _, _, _, _)
GroupedMap(rows, mk, xk, i, map) ==
  IF i > Len(rows) THEN map
  ELSE LET key == JsString(Lookup(rows[i], xk))
       IN  GroupedMap(rows, mk, xk, i + 1,
                      MapSet(map, key, MapGet(map, key) + GroupValue(rows[i], mk)))

\* Array.from(groupedMap.entries()).map(([key, val]) => ({[xKey]: key, [mainKey]: val}))
Reconstruct(map, mk, xk) ==
  [i \in 1..Len(map) |->
     SetField(SetField(<<>>, xk, Str(map[i].key)), mk, Num(map[i].val))] \o <<>>

\* the sort that puts the lowest value first
SortByValue_Ascending(rows, mk) ==
  LET n == Len(rows)
      v(i) == Lookup(rows[i], mk).n
      place(i) == 1 + Cardinality({j \in 1..n : v(j) < v(i) \/ (v(j) = v(i) /\ j < i)})
  IN  [p \in 1..n |-> rows[CHOOSE i \in 1..n : place(i) = p]] \o <<>>

\* result.sort((a, b) => b[mainKey] - a[mainKey]) on rows whose values are
\* numbers: the comparator is consistent, the sort is stable
SortByValue(rows, mk) ==
  LET n == Len(rows)
      v(i) == Lookup(rows[i], mk).n
      place(i) == 1 + Cardinality({j \in 1..n : v(j) > v(i) \/ (v(j) = v(i) /\ j < i)})
  IN  [p \in 1..n |-> rows[CHOOSE i \in 1..n : place(i) = p]] \o <<>>

\* the grouping that keeps the source rows next to the grouped ones
Aggregate_Keeping(rows, mk, xk) ==
  rows \o SortByValue(Reconstruct(GroupedMap(rows, mk, xk, 1, <<>>), mk, xk), mk)

\* the body of `if (needsAggregation)`
Aggregate(rows, mk, xk) ==
  SortByValue(Reconstruct(GroupedMap(rows, mk, xk, 1, <<>>), mk, xk), mk)

\* step 2, the flag: result.length > 0 && xKey && mainKey, and a repeated key
NeedsAggregation(rows, mk, xk) ==
  Len(rows) > 0 /\ xk # <<>> /\ mk # <<>> /\ DetectDuplicates(rows, xk)

\* step 2: if (needsAggregation) the rows are replaced by the grouped ones
Grouping(rows, mk, xk) ==
  IF NeedsAggregation(rows, mk, xk) THEN Aggregate(rows, mk, xk) ELSE rows

\* the memo processedData
ProcessData(rows, text, mk, xk) ==
  Grouping(FreeTextFilter(rows, text, mk, xk), mk, xk)

(***************************************************************************)
(* WidgetCard: total and average                                           *)
(***************************************************************************)
\* the total's summand that counts a non-numeric value as 1
TotalValue_Unit(item, mk) ==
  LET val == ToNumber(Lookup(item, mk)) IN IF val.t = "num" THEN val.n ELSE 1

\* Number(curr[mainKey]) || 0
TotalValue(item, mk) ==
  LET val == ToNumber(Lookup(item, mk)) IN IF val.t = "num" THEN val.n ELSE 0

\* processedData.reduce((acc, curr) => acc + (Number(curr[mainKey]) || 0), 0)
RECURSIVE Total(_, _)
Total(rows, mk) ==
  IF rows = <<>> THEN 0 ELSE TotalValue(Head(rows), mk) + Total(Tail(rows), mk)

Abs(i) == IF i < 0 THEN 0 - i ELSE i

RECURSIVE Gcd(_, _)
Gcd(a, b) == IF b = 0 THEN a ELSE Gcd(b, a % b)

\* a / b for b > 0, as the fraction in lowest terms
Divide(a, b) ==
  LET g == Gcd(Abs(a), b) IN [num |-> a \div g, den |-> b \div g]

\* processedData.length ? total / processedData.length : 0
Average(rows, sum) ==
  IF Len(rows) # 0 THEN Divide(sum, Len(rows)) ELSE Divide(0, 1)

\* The render that groups the loaded rows first and filters the grouped rows.
Render_GroupFirst(cfg, rows, text) ==
  LET xk == xKeyOf(cfg)
      mk == mainKeyOf(cfg, rows)
      grouped == Grouping(rows, mk, xk)
      processed == FreeTextFilter(grouped, text, mk, xk)
      sum == Total(processed, mk)
  IN  [xKey |-> xk, mainKey |-> mk, filtered |-> rows,
       needsAggregation |-> NeedsAggregation(rows, mk, xk),
       processedData |-> processed, total |-> sum, average |-> Average(processed, sum)]

\* One render of WidgetCard: the keys and the three memos.
Render(cfg, rows, text) ==
  LET xk == xKeyOf(cfg)
      mk == mainKeyOf(cfg, rows)
      kept == FreeTextFilter(rows, text, mk, xk)
      processed == Grouping(kept, mk, xk)
      sum == Total(processed, mk)
  IN  [xKey |-> xk, mainKey |-> mk, filtered |-> kept,
       needsAggregation |-> NeedsAggregation(kept, mk, xk),
       processedData |-> processed, total |-> sum, average |-> Average(processed, sum)]

(***************************************************************************)
(* WidgetCard: the effect and loadData                                     *)
(***************************************************************************)
\* no loadData call has run to its end
NoSettle ==
  [id |-> 0, newest |-> 0, mounted |-> FALSE, setData |-> FALSE, setLoading |-> FALSE]

\* a loadData call of a run of the effect: let isMounted = true, fetch awaited
NewLoad == [isMounted |-> TRUE, pending |-> TRUE]

\* the cleanup that leaves isMounted as it is
Cleanup_Missing(ls) == ls

\* return () => { isMounted = false; } of the latest run of the effect
Cleanup(ls) ==
  IF ls = <<>> THEN ls ELSE [ls EXCEPT ![Len(ls)].isMounted = FALSE]

\* The end of a loadData call whose catch block empties the data.
Settle_ClearOnError(ls, i, outcome, rows, busy, present) ==
  LET alive == ls[i].isMounted IN
    [ widgetData |-> IF alive THEN outcome.rows ELSE rows,
      loading |-> IF alive THEN FALSE ELSE busy,
      loads |-> [ls EXCEPT ![i].pending = FALSE],
      lastSettled |-> [id |-> i, newest |-> Len(ls), mounted |-> present,
                       setData |-> alive /\ outcome.ok, setLoading |-> alive] ]

\* The end of a loadData call whose finally block sets the flag whether or not
\* the effect was cleaned up.
Settle_AlwaysSetLoading(ls, i, outcome, rows, busy, present) ==
  LET alive == ls[i].isMounted IN
    [ widgetData |-> IF alive /\ outcome.ok THEN outcome.rows ELSE rows,
      loading |-> FALSE,
      loads |-> [ls EXCEPT ![i].pending = FALSE],
      lastSettled |-> [id |-> i, newest |-> Len(ls), mounted |-> present,
                       setData |-> alive /\ outcome.ok, setLoading |-> TRUE] ]

\* The end of loadData call i of ls, with the outcome of its fetch:
\* if (isMounted) setData(result), unless the fetch threw, and in the
\* finally block if (isMounted) setLoading(false).
Settle(ls, i, outcome, rows, busy, present) ==
  LET alive == ls[i].isMounted IN
    [ widgetData |-> IF alive /\ outcome.ok THEN outcome.rows ELSE rows,
      loading |-> IF alive THEN FALSE ELSE busy,
      loads |-> [ls EXCEPT ![i].pending = FALSE],
      lastSettled |-> [id |-> i, newest |-> Len(ls), mounted |-> present,
                       setData |-> alive /\ outcome.ok, setLoading |-> alive] ]

\* The widget as it is before its first render with a configuration.
NoConfig == [xAxisKey |-> <<>>, dataKey |-> <<>>]

WidgetIdle ==
  /\ config = NoConfig
  /\ widgetData = <<>>
  /\ loading = FALSE
  /\ filterValue = <<>>
  /\ xKey = <<>>
  /\ mainKey = <<>>
  /\ filtered = <<>>
  /\ needsAggregation = FALSE
  /\ processedData = <<>>
  /\ total = 0
  /\ average = Divide(0, 1)
  /\ mounted = FALSE
  /\ loads = <<>>
  /\ lastSettled = NoSettle

(***************************************************************************)
(* fixODataQuery                                                           *)
(***************************************************************************)
\* a property of the parsed object: absent (undefined) or a string
Absent == [present |-> FALSE, s |-> <<>>]
Text(s) == [present |-> TRUE, s |-> s]

\* String.prototype.startsWith
StartsWith(s, prefix) ==
  Len(s) >= Len(prefix) /\ SubSeq(s, 1, Len(prefix)) = prefix

\* config.odataQuery?.trim() || ""
TrimmedQuery(cfg) == IF cfg.odataQuery.present THEN Trim(cfg.odataQuery.s) ELSE <<>>

\* config.entity?.trim(), undefined as the empty text: both are falsy
TrimmedEntity(cfg) == IF cfg.entity.present THEN Trim(cfg.entity.s) ELSE <<>>

\* the repair that anchors the query even without an entity name
fixODataQuery_AlwaysAnchor(cfg) ==
  LET query == TrimmedQuery(cfg)
      entity == TrimmedEntity(cfg)
  IN  IF StartsWith(query, <<"/">>) THEN cfg
      ELSE [cfg EXCEPT !.odataQuery = Text(<<"/">> \o entity \o <<"?">> \o query)]

\* the repair that puts a question mark after the entity in every case
fixODataQuery_QuestionMarkAlways(cfg) ==
  LET query == TrimmedQuery(cfg)
      entity == TrimmedEntity(cfg)
  IN  IF query = <<>> \/ entity = <<>> \/ StartsWith(query, <<"/">>) THEN cfg
      ELSE IF StartsWith(ToLowerCase(query), ToLowerCase(entity))
        THEN [cfg EXCEPT !.odataQuery = Text(<<"/">> \o query)]
      ELSE [cfg EXCEPT !.odataQuery = Text(<<"/">> \o entity \o <<"?">> \o query)]

\* the repair that compares the query with the entity name letter for letter
fixODataQuery_CaseSensitive(cfg) ==
  LET query == TrimmedQuery(cfg)
      entity == TrimmedEntity(cfg)
  IN  IF query = <<>> \/ entity = <<>> \/ StartsWith(query, <<"/">>) THEN cfg
      ELSE IF StartsWith(query, <<"$">>)
        THEN [cfg EXCEPT !.odataQuery = Text(<<"/">> \o entity \o <<"?">> \o query)]
      ELSE IF StartsWith(query, <<"?">>)
        THEN [cfg EXCEPT !.odataQuery = Text(<<"/">> \o entity \o query)]
      ELSE IF StartsWith(query, entity)
        THEN [cfg EXCEPT !.odataQuery = Text(<<"/">> \o query)]
      ELSE [cfg EXCEPT !.odataQuery = Text(<<"/">> \o entity \o <<"?">> \o query)]

\* the repair that stores the trimmed text of a query that is already a path
fixODataQuery_TrimPath(cfg) ==
  LET query == TrimmedQuery(cfg)
      entity == TrimmedEntity(cfg)
  IN  IF query = <<>> \/ entity = <<>> THEN cfg
      ELSE IF StartsWith(query, <<"$">>)
        THEN [cfg EXCEPT !.odataQuery = Text(<<"/">> \o entity \o <<"?">> \o query)]
      ELSE IF StartsWith(query, <<"?">>)
        THEN [cfg EXCEPT !.odataQuery = Text(<<"/">> \o entity \o query)]
      ELSE IF StartsWith(query, <<"/">>)
        THEN [cfg EXCEPT !.odataQuery = Text(query)]
      ELSE IF StartsWith(ToLowerCase(query), ToLowerCase(entity))
        THEN [cfg EXCEPT !.odataQuery = Text(<<"/">> \o query)]
      ELSE [cfg EXCEPT !.odataQuery = Text(<<"/">> \o entity \o <<"?">> \o query)]

\* the repair that does not look for a leading slash
fixODataQuery_NoSlashCheck(cfg) ==
  LET query == TrimmedQuery(cfg)
      entity == TrimmedEntity(cfg)
  IN  IF query = <<>> \/ entity = <<>> THEN cfg
      ELSE IF StartsWith(query, <<"$">>)
        THEN [cfg EXCEPT !.odataQuery = Text(<<"/">> \o entity \o <<"?">> \o query)]
      ELSE IF StartsWith(query, <<"?">>)
        THEN [cfg EXCEPT !.odataQuery = Text(<<"/">> \o entity \o query)]
      ELSE IF StartsWith(ToLowerCase(query), ToLowerCase(entity))
        THEN [cfg EXCEPT !.odataQuery = Text(<<"/">> \o query)]
      ELSE [cfg EXCEPT !.odataQuery = Text(<<"/">> \o entity \o <<"?">> \o query)]

\* fixODataQuery(config): config.odataQuery is rewritten in place and the
\* object is returned
fixODataQuery(cfg) ==
  LET query == TrimmedQuery(cfg)
      entity == TrimmedEntity(cfg)
  IN  IF query = <<>> \/ entity = <<>> THEN cfg
      ELSE IF StartsWith(query, <<"$">>)
        THEN [cfg EXCEPT !.odataQuery = Text(<<"/">> \o entity \o <<"?">> \o query)]
      ELSE IF StartsWith(query, <<"?">>)
        THEN [cfg EXCEPT !.odataQuery = Text(<<"/">> \o entity \o query)]
      ELSE IF ~StartsWith(query, <<"/">>)
        THEN IF StartsWith(ToLowerCase(query), ToLowerCase(entity))
             THEN [cfg EXCEPT !.odataQuery = Text(<<"/">> \o query)]
             ELSE [cfg EXCEPT !.odataQuery = Text(<<"/">> \o entity \o <<"?">> \o query)]
      ELSE cfg

\* if (config.sqlQuery): a text that is present and not empty
HasSqlQuery(cfg) == cfg.sqlQuery.present /\ cfg.sqlQuery.s # <<>>

\* fixODataQuery(config) of the service with the SQL modes: a configuration
\* that carries a sqlQuery is returned as it is, any other is repaired as above
fixODataQuerySkipSql(cfg) == IF HasSqlQuery(cfg) THEN cfg ELSE fixODataQuery(cfg)

\* no object has been parsed
NoAiConfig == [odataQuery |-> Absent, entity |-> Absent, sqlQuery |-> Absent]

\* the service file whose fixODataQuery ran
NoService == "none"
OdataService == "geminiService.ts"
SqlService == "part_003"

FixIdle ==
  /\ aiConfig = NoAiConfig
  /\ aiGiven = NoAiConfig
  /\ aiFixed = FALSE
  /\ aiService = NoService

(***************************************************************************)
(* Inputs                                                                  *)
(***************************************************************************)
FieldX == <<"X">>
FieldY == <<"Y">>
FieldOpen == <<"Z", "(">>

\* The rows a sheet may hold: a number, numeric text, a row without X, and a
\* row under a column header with an unclosed parenthesis.
RowPool ==
  { << [k |-> FieldX, v |-> Num(10)] >>,
    << [k |-> FieldX, v |-> Str(<<"9">>)], [k |-> FieldY, v |-> Num(1)] >>,
    << [k |-> FieldY, v |-> Str(<<"b">>)] >>,
    << [k |-> FieldX, v |-> Num(2)], [k |-> FieldOpen, v |-> Num(1)] >> }

RECURSIVE SeqsUpTo(_, _)
SeqsUpTo(S, n) ==
  IF n = 0 THEN {<<>>}
  ELSE LET shorter == SeqsUpTo(S, n - 1)
       IN  shorter \cup {Append(t, x) : t \in {u \in shorter : Len(u) = n - 1}, x \in S}

Collections == SeqsUpTo(RowPool, MaxRows)

None == <<>>

\* $filter values
FilterTexts ==
  { None,
    <<"X", "+", "g", "t", "+", "2">>,
    <<"X", " ", "l", "t", " ", "1", "0">>,
    <<"X", " ", "g", "e", " ", "1", "0">>,
    <<"X", " ", "l", "e", " ", "2">>,
    <<"X", " ", "e", "q", " ", "'", "1", "0", "'">>,
    <<"X", " ", "n", "e", " ", "1", "0">>,
    <<"X", " ", "g", "t", " ", "2", " ", "a", "n", "d", " ", "X", " ", "l", "t", " ", "1", "0">>,
    <<"Y", " ", "e", "q", " ", "'", "a", " ", "b", "'">>,
    <<"X", " ", " ", "g", "t", " ", "2">> }

\* $orderby values
OrderTexts == { None, <<"X">>, <<"X", " ", "d", "e", "s", "c">> }

\* $select values
SelectTexts == { None, <<"Y">>, <<"Y", ",", " ", "X">> }

\* $top values
TopTexts == { None, <<"0">>, <<"1">>, <<"a", "b", "c">> }

Directive(name, text) == IF text = None THEN <<>> ELSE <<name \o <<"=">> \o text>>

RECURSIVE JoinAmp(_)
JoinAmp(pieces) ==
  IF pieces = <<>> THEN <<>>
  ELSE IF Len(pieces) = 1 THEN pieces[1]
  ELSE pieces[1] \o <<"&">> \o JoinAmp(Tail(pieces))

\* /Data?$filter=..&$orderby=..&$select=..&$top=.., each directive optional
QueryText(f, o, s, t) ==
  <<"/", "D", "a", "t", "a", "?">> \o
  JoinAmp(Directive(<<"$", "f", "i", "l", "t", "e", "r">>, f) \o
          Directive(<<"$", "o", "r", "d", "e", "r", "b", "y">>, o) \o
          Directive(<<"$", "s", "e", "l", "e", "c", "t">>, s) \o
          Directive(<<"$", "t", "o", "p">>, t))

\* $filter values that are combined with every other directive
CombinedFilterTexts == { None, <<"X", "+", "g", "t", "+", "2">> }

\* The query texts a widget may carry: every combination of the four
\* directives around two filters, every filter alone and with a $top, and two
\* texts without a '?'.
Queries ==
  {QueryText(f, o, s, t) :
     f \in CombinedFilterTexts, o \in OrderTexts, s \in SelectTexts, t \in TopTexts}
  \cup {QueryText(f, None, None, t) : f \in FilterTexts, t \in {None, <<"1">>}}
  \cup { <<"/", "D", "a", "t", "a">>, <<"$", "t", "o", "p", "=", "0">> }

(***************************************************************************)
(* The state machine                                                       *)
(***************************************************************************)
NoDirectives == Directives(<<>>)

Init ==
  /\ data \in Collections
  /\ odataQuery = <<>>
  /\ called = FALSE
  /\ directives = NoDirectives
  /\ afterFilter = <<>>
  /\ afterSort = <<>>
  /\ afterSelect = <<>>
  /\ result = <<>>
  /\ raised = FALSE
  /\ WidgetIdle
  /\ FixIdle

\* A caller (WidgetCard, App, the explorers) runs a query on the loaded data.
ExecuteLocalQuery ==
  /\ ~called
  /\ \E q \in Queries :
      \E out \in executeLocalQuery(data, q) :
        /\ odataQuery' = q
        /\ called' = TRUE
        /\ directives' = out.directives
        /\ data' = out.data
        /\ afterFilter' = out.afterFilter
        /\ afterSort' = out.afterSort
        /\ afterSelect' = out.afterSelect
        /\ result' = out.result
        /\ raised' = out.raised
  /\ UNCHANGED <<widgetVars, fixVars>>

\* The caller has taken the returned rows; the next call starts afresh.
Return ==
  /\ called
  /\ called' = FALSE
  /\ odataQuery' = <<>>
  /\ directives' = NoDirectives
  /\ afterFilter' = <<>>
  /\ afterSort' = <<>>
  /\ afterSelect' = <<>>
  /\ result' = <<>>
  /\ raised' = FALSE
  /\ UNCHANGED data
  /\ UNCHANGED <<widgetVars, fixVars>>

Next == ExecuteLocalQuery \/ Return

Spec == Init /\ [][Next]_vars

(***************************************************************************)
(* The directives of the last call, as the properties below read them      *)
(***************************************************************************)
QFilter == directives.filter
QOrderby == directives.orderby
QSelect == directives.select
QTop == directives.top

HasFilter == Truthy(QFilter)
HasOrderby == Truthy(QOrderby)
HasSelect == Truthy(QSelect)
HasTop == Truthy(QTop)

QOrderKey == Split(QOrderby.s, " ")[1]
QOrderDesc == Len(Split(QOrderby.s, " ")) >= 2 /\ Split(QOrderby.s, " ")[2] = <<"d", "e", "s", "c">>

\* $top is a non-negative integer numeral
TopIsNatural == HasTop /\ AllDigits(QTop.s)
TopValue == ParseDigits(QTop.s, 0)

Min(a, b) == IF a < b THEN a ELSE b

IsPrefix(a, b) == Len(a) <= Len(b) /\ a = SubSeq(b, 1, Len(a))

\* the rows of rows that pass the $filter of the last call
PassingRows(rows) ==
  IF HasFilter
  THEN LET filter == QFilter.s
       IN  SelectSeq(rows, LAMBDA row : FilterRow(row, filter).ret)
  ELSE rows

\* the orders $orderby may leave rows in
OrderedRows(rows) ==
  IF HasOrderby THEN SortOutcomes(rows, QOrderKey, IF QOrderDesc THEN 0 - 1 ELSE 1)
  ELSE {rows}

\* rows projected to $select, row by row
ProjectedRows(rows) ==
  IF HasSelect
  THEN LET keys == SelectKeys(QSelect.s)
       IN  [i \in 1..Len(rows) |-> ProjectInto(<<>>, rows[i], keys)] \o <<>>
  ELSE rows

(***************************************************************************)
(* C1: the directives apply in the order filter, sort, projection, limit:  *)
(* the returned rows are the first rows of the projection of an ordering   *)
(* of the input rows that pass the filter, the filter and the ordering     *)
(* reading the unprojected rows; all of them without $top, and             *)
(* min(N, their number) of them with $top=N.                               *)
(***************************************************************************)
C1_FixedOrder ==
  called =>
    \E s \in OrderedRows(PassingRows(data)) :
      LET projected == ProjectedRows(s)
      IN  /\ IsPrefix(result, projected)
          /\ ~HasTop => result = projected
          /\ TopIsNatural => Len(result) = Min(TopValue, Len(projected))

\* A filter removes a row, the sort reorders the two that are left, both on X;
\* the projection keeps Y only and the limit keeps the first row.
C1_Witness ==
  /\ called
  /\ HasFilter /\ HasOrderby /\ HasSelect /\ TopIsNatural
  /\ QSelect.s = <<"Y">>
  /\ Len(data) = 3
  /\ Len(afterFilter) = 2
  /\ afterSort = <<afterFilter[2], afterFilter[1]>>
  /\ afterSort # afterFilter
  /\ Len(result) = 1
  /\ result[1] = ProjectedRows(afterSort)[1]
  /\ result[1] # afterSort[1]

(***************************************************************************)
(* A single-condition filter, as the properties below read it              *)
(***************************************************************************)
FilterParts == Split(QFilter.s, " ")
SingleConditionFilter == HasFilter /\ Len(FilterParts) = 3
FilterField == FilterParts[1]
FilterOp == FilterParts[2]
FilterLiteral == StripQuotes(FilterParts[3])

OpEq == <<"e", "q">>
OpNe == <<"n", "e">>
OpGt == <<"g", "t">>
OpLt == <<"l", "t">>
OpGe == <<"g", "e">>
OpLe == <<"l", "e">>

\* Number(x) op Number(y), false when either side is NaN
NumericHolds(op, x, y) ==
  /\ x.t = "num"
  /\ y.t = "num"
  /\ CASE op = OpGt -> x.n > y.n
       [] op = OpLt -> x.n < y.n
       [] op = OpGe -> x.n >= y.n
       [] op = OpLe -> x.n <= y.n
       [] OTHER -> FALSE

(***************************************************************************)
(* C2: a single-condition filter with gt, lt, ge or le keeps exactly the   *)
(* rows for which Number(row[field]) op Number(literal) holds.             *)
(***************************************************************************)
C2_NumericOperators ==
  (called /\ SingleConditionFilter /\ FilterOp \in {OpGt, OpLt, OpGe, OpLe}) =>
    afterFilter =
      SelectSeq(data, LAMBDA row :
        NumericHolds(FilterOp, ToNumber(Lookup(row, FilterField)), ToNumber(Str(FilterLiteral))))

(***************************************************************************)
(* C3: a single-condition filter with eq (ne) keeps exactly the rows whose *)
(* field value, in its string form, equals (differs from) the literal with *)
(* its quotes stripped.                                                    *)
(***************************************************************************)
C3_StringEquality ==
  (called /\ SingleConditionFilter /\ FilterOp \in {OpEq, OpNe}) =>
    afterFilter =
      SelectSeq(data, LAMBDA row :
        IF FilterOp = OpEq
        THEN JsString(Lookup(row, FilterField)) = FilterLiteral
        ELSE JsString(Lookup(row, FilterField)) # FilterLiteral)

(***************************************************************************)
(* C4: a filter that does not split into exactly three space-separated     *)
(* tokens fails open: every input row passes the filter step, and the call *)
(* raises no error.                                                        *)
(***************************************************************************)
C4_FailOpen ==
  (called /\ HasFilter /\ Len(FilterParts) # 3) => (afterFilter = data /\ ~raised)

\* A compound filter whose first condition, X gt 2, the row without X would fail.
C4_Witness ==
  /\ called
  /\ HasFilter
  /\ Len(FilterParts) = 7
  /\ FilterParts[4] = <<"a", "n", "d">>
  /\ Len(data) = 2
  /\ Lookup(data[1], FieldX) = Undefined
  /\ afterFilter = data

(***************************************************************************)
(* C5: with $top=N, N a non-negative integer, at most N rows are returned: *)
(* exactly min(N, rows left by filter and sort), the first rows of the     *)
(* filtered and sorted sequence (projected).                               *)
(***************************************************************************)
C5_TopBound ==
  (called /\ TopIsNatural) =>
    /\ Len(result) <= TopValue
    /\ Len(result) = Min(TopValue, Len(afterSort))
    /\ result = SubSeq(ProjectedRows(afterSort), 1, Len(result))

\* Three rows are left, $top=1 returns the first.
C5_Witness ==
  /\ called
  /\ TopIsNatural
  /\ TopValue = 1
  /\ Len(afterSort) = 3
  /\ result = <<ProjectedRows(afterSort)[1]>>

(***************************************************************************)
(* C6: a $top that is not a number is ignored: the limit step is skipped,  *)
(* the rows are those of the same query without $top, no error is raised.  *)
(***************************************************************************)
C6_MalformedTopIgnored ==
  (called /\ HasTop /\ ToNumber(Str(QTop.s)) = NaN) => (result = afterSelect /\ ~raised)

(***************************************************************************)
(* C7: with $select, every field of every output row is named in the       *)
(* select list and present, with its value, in the corresponding source    *)
(* row; a selected field the source row lacks is absent from the output    *)
(* row; the projection keeps the number and the order of the rows.         *)
(***************************************************************************)
SelectList ==
  LET parts == Split(QSelect.s, ",") IN {Trim(parts[i]) : i \in 1..Len(parts)}

HasField(row, key) == \E i \in 1..Len(row) : row[i].k = key

C7_Projection ==
  (called /\ HasSelect) =>
    LET list == SelectList IN
      /\ Len(afterSelect) = Len(afterSort)
      /\ \A i \in 1..Len(afterSelect) :
           /\ \A f \in 1..Len(afterSelect[i]) :
                /\ afterSelect[i][f].k \in list
                /\ HasField(afterSort[i], afterSelect[i][f].k)
                /\ Lookup(afterSort[i], afterSelect[i][f].k) = afterSelect[i][f].v
           /\ \A key \in list :
                ~HasField(afterSort[i], key) => ~HasField(afterSelect[i], key)

\* $select=Y, X on two rows, the first without Y: it keeps X alone.
C7_Witness ==
  /\ called
  /\ HasSelect
  /\ SelectList = {FieldX, FieldY}
  /\ Len(afterSort) = 2
  /\ ~HasField(afterSort[1], FieldY)
  /\ Keys(afterSelect[1]) = <<FieldX>>
  /\ Keys(afterSelect[2]) = <<FieldY, FieldX>>

(***************************************************************************)
(* C8: executeLocalQuery never mutates its input: over any call the        *)
(* caller's collection keeps its rows, their order, fields and values.     *)
(***************************************************************************)
C8_InputUnchanged == [][data' = data]_vars

\* A call without $filter whose sort reordered the rows: the sorted array is
\* another array than the caller's.
C8_Witness ==
  /\ called
  /\ ~HasFilter
  /\ HasOrderby
  /\ Len(data) = 3
  /\ afterSort # data
  /\ afterFilter = data

(***************************************************************************)
(* C9: with $orderby the output is a permutation of the filtered rows in   *)
(* the order of the field: non-decreasing (asc or no direction) or         *)
(* non-increasing (desc), numeric between two numbers and lexicographic    *)
(* otherwise.  Only the rows that carry the field are held to the order.   *)
(***************************************************************************)
ClaimedLeq(a, b) ==
  IF a.t = "num" /\ b.t = "num" THEN a.n <= b.n
  ELSE JsString(a) = JsString(b) \/ StrLess(JsString(a), JsString(b))

IsPermutation(a, b) ==
  /\ Len(a) = Len(b)
  /\ \E p \in Orders(Len(a)) : \A i \in 1..Len(a) : a[i] = b[p[i]]

C9_Ordered ==
  (called /\ HasOrderby) =>
    /\ IsPermutation(afterSort, afterFilter)
    /\ \A i, j \in 1..Len(afterSort) :
         LET x == Lookup(afterSort[i], QOrderKey)
             y == Lookup(afterSort[j], QOrderKey)
         IN  (i < j /\ x # Undefined /\ y # Undefined) =>
               IF QOrderDesc THEN ClaimedLeq(y, x) ELSE ClaimedLeq(x, y)

(***************************************************************************)
(* C10: without $orderby the output rows come in the relative order of the *)
(* input rows they are made from, and a query without directives returns   *)
(* all the input rows in input order.                                      *)
(***************************************************************************)
\* the k-th smallest member of a set of indices
Nth(idx, k) == CHOOSE i \in idx : Cardinality({j \in idx : j < i}) = k - 1

\* res is made, row by row, of rows of src taken in increasing position
InSourceOrder(res, src) ==
  LET projected == ProjectedRows(src) IN
    \E idx \in SUBSET (1..Len(src)) :
      /\ Cardinality(idx) = Len(res)
      /\ \A k \in 1..Len(res) : res[k] = projected[Nth(idx, k)]

C10_OrderPreserved ==
  called =>
    /\ ~HasOrderby => InSourceOrder(result, data)
    /\ (~HasFilter /\ ~HasOrderby /\ ~HasSelect /\ ~HasTop) => result = data

\* A filter without $orderby drops the middle row of three; the other two are
\* returned in input order.
C10_Witness ==
  /\ called
  /\ HasFilter
  /\ ~HasOrderby
  /\ ~HasSelect
  /\ Len(data) = 3
  /\ data[1] # data[3]
  /\ result = <<data[1], data[3]>>

(***************************************************************************)
(* WidgetCard: inputs                                                      *)
(***************************************************************************)
\* The rows a load may deliver: two plain rows, a row with a non-numeric
\* value, a target-vs-actual row and a row without a name.
WidgetRowPool ==
  { << [k |-> KeyName, v |-> Str(<<"A", "l", "p", "h", "a">>)], [k |-> KeyValue, v |-> Num(5)] >>,
    << [k |-> KeyName, v |-> Str(<<"B", "e", "t", "a">>)], [k |-> KeyValue, v |-> Num(10)] >>,
    << [k |-> KeyName, v |-> Str(<<"b", "e", "t", "a">>)], [k |-> KeyValue, v |-> Str(<<"x">>)] >>,
    << [k |-> KeyName, v |-> Str(<<"A", "l", "p", "h", "a">>)],
       [k |-> KeyTarget, v |-> Num(3)], [k |-> KeyActual, v |-> Num(4)] >>,
    << [k |-> KeyValue, v |-> Str(<<"5">>)] >> }

WidgetCollections == SeqsUpTo(WidgetRowPool, MaxRows)

\* props.config: the keys left to their defaults, one field for both keys, and
\* a supplied value key
Configs ==
  { NoConfig,
    [xAxisKey |-> KeyValue, dataKey |-> KeyValue],
    [xAxisKey |-> KeyName, dataKey |-> KeyTarget] }

\* what the user may type into the filter box
FilterValues ==
  { <<>>, <<"1", "0">>, <<"6">>, <<"a">>, <<"A", "L">>, <<" ">> }

(***************************************************************************)
(* WidgetCard: the state machine of one mounted widget                     *)
(***************************************************************************)
QueryIdle ==
  /\ data = <<>>
  /\ odataQuery = <<>>
  /\ called = FALSE
  /\ directives = NoDirectives
  /\ afterFilter = <<>>
  /\ afterSort = <<>>
  /\ afterSelect = <<>>
  /\ result = <<>>
  /\ raised = FALSE

\* the memos after a render with the primed state
Rendered(cfg, rows, text) ==
  \E r \in {Render(cfg, rows, text)} :
      /\ xKey' = r.xKey
      /\ mainKey' = r.mainKey
      /\ filtered' = r.filtered
      /\ needsAggregation' = r.needsAggregation
      /\ processedData' = r.processedData
      /\ total' = r.total
      /\ average' = r.average

\* The widget is mounted with its configuration and its effect has started
\* the load: no data yet, loading.
WidgetInit ==
  /\ QueryIdle
  /\ FixIdle
  /\ config \in Configs
  /\ widgetData = <<>>
  /\ loading = TRUE
  /\ mounted = TRUE
  /\ loads = <<NewLoad>>
  /\ lastSettled = NoSettle
  /\ filterValue = <<>>
  /\ xKey = Render(config, <<>>, <<>>).xKey
  /\ mainKey = Render(config, <<>>, <<>>).mainKey
  /\ filtered = Render(config, <<>>, <<>>).filtered
  /\ needsAggregation = Render(config, <<>>, <<>>).needsAggregation
  /\ processedData = Render(config, <<>>, <<>>).processedData
  /\ total = Render(config, <<>>, <<>>).total
  /\ average = Render(config, <<>>, <<>>).average

\* The load of the mounted widget delivers its rows: setData(result),
\* setLoading(false), and the render they cause.
SetData ==
  /\ loads[1].pending
  /\ \E rows \in WidgetCollections :
       \E s \in {Settle(loads, 1, [ok |-> TRUE, rows |-> rows], widgetData, loading, mounted)} :
           /\ widgetData' = s.widgetData
           /\ loading' = s.loading
           /\ loads' = s.loads
           /\ lastSettled' = s.lastSettled
           /\ Rendered(config, s.widgetData, filterValue)
  /\ UNCHANGED <<config, filterValue, mounted, queryVars, fixVars>>

\* The user edits the filter box: setFilterValue(e.target.value), and the
\* render it causes.
SetFilterValue ==
  /\ \E text \in FilterValues :
       /\ text # filterValue
       /\ filterValue' = text
       /\ Rendered(config, widgetData, text)
  /\ UNCHANGED <<config, widgetData, loading, mounted, loads, lastSettled, queryVars, fixVars>>

WidgetNext == SetData \/ SetFilterValue

WidgetSpec == WidgetInit /\ [][WidgetNext]_vars

(***************************************************************************)
(* WidgetCard: the state machine of the loads of one widget                *)
(***************************************************************************)
\* what a remote fetch (executeODataQuery, the mock SQL services) may deliver
FetchResults == {rows \in WidgetCollections : Len(rows) <= 1}

\* the uploaded file of LOCAL_FILE_MODE
LocalFiles == {rows \in Collections : Len(rows) = 1}

\* config.odataQuery in LOCAL_FILE_MODE
LocalQueries == { QueryText(None, None, None, None), QueryText(None, None, None, <<"0">>) }

\* result = executeLocalQuery(_localDataRef, config.odataQuery), or the
\* initial [] without a _localDataRef; a throw leaves the try block
LocalOutcomes ==
  { [ok |-> TRUE, rows |-> <<>>] } \cup
  { [ok |-> ~out.raised, rows |-> out.result] :
      out \in UNION {executeLocalQuery(d, q) : d \in LocalFiles, q \in LocalQueries} }

\* the state after loadData call i of ls has run to its end
Settled(ls, i, outcome) ==
  \E s \in {Settle(ls, i, outcome, widgetData, loading, mounted)} :
      /\ widgetData' = s.widgetData
      /\ loading' = s.loading
      /\ loads' = s.loads
      /\ lastSettled' = s.lastSettled
      /\ Rendered(config, s.widgetData, filterValue)

\* The widget has been created and has rendered once; its effect has not run.
LoadInit ==
  /\ QueryIdle
  /\ FixIdle
  /\ config = NoConfig
  /\ widgetData = <<>>
  /\ loading = TRUE
  /\ mounted = TRUE
  /\ loads = <<>>
  /\ lastSettled = NoSettle
  /\ filterValue = <<>>
  /\ xKey = Render(config, <<>>, <<>>).xKey
  /\ mainKey = Render(config, <<>>, <<>>).mainKey
  /\ filtered = Render(config, <<>>, <<>>).filtered
  /\ needsAggregation = Render(config, <<>>, <<>>).needsAggregation
  /\ processedData = Render(config, <<>>, <<>>).processedData
  /\ total = Render(config, <<>>, <<>>).total
  /\ average = Render(config, <<>>, <<>>).average

\* The effect runs, after the mount or after one of its inputs changed: the
\* cleanup of its previous run, then loadData: setLoading(true) and a fetch
\* that is awaited.
StartRemoteLoad ==
  /\ mounted
  /\ Len(loads) < MaxLoads
  /\ loads' = Append(Cleanup(loads), NewLoad)
  /\ loading' = TRUE
  /\ UNCHANGED <<config, widgetData, filterValue, xKey, mainKey, filtered, needsAggregation,
                 processedData, total, average, mounted, lastSettled, queryVars, fixVars>>

\* The effect runs in LOCAL_FILE_MODE: loadData awaits nothing and runs to
\* its end at once.
StartLocalLoad ==
  /\ mounted
  /\ Len(loads) < MaxLoads
  /\ \E outcome \in LocalOutcomes :
       Settled(Append(Cleanup(loads), NewLoad), Len(loads) + 1, outcome)
  /\ UNCHANGED <<config, filterValue, mounted, queryVars, fixVars>>

\* The awaited fetch of a load resolves.
Resolve ==
  /\ \E i \in 1..Len(loads) :
       /\ loads[i].pending
       /\ \E rows \in FetchResults : Settled(loads, i, [ok |-> TRUE, rows |-> rows])
  /\ UNCHANGED <<config, filterValue, mounted, queryVars, fixVars>>

\* The awaited fetch of a load rejects: the catch block logs the error.
Reject ==
  /\ \E i \in 1..Len(loads) :
       /\ loads[i].pending
       /\ Settled(loads, i, [ok |-> FALSE, rows |-> <<>>])
  /\ UNCHANGED <<config, filterValue, mounted, queryVars, fixVars>>

\* The widget is removed: the cleanup of the latest run of the effect.
Unmount ==
  /\ mounted
  /\ mounted' = FALSE
  /\ loads' = Cleanup(loads)
  /\ UNCHANGED <<config, widgetData, loading, filterValue, xKey, mainKey, filtered,
                 needsAggregation, processedData, total, average, lastSettled, queryVars, fixVars>>

LoadNext == StartRemoteLoad \/ StartLocalLoad \/ Resolve \/ Reject \/ Unmount

LoadSpec == LoadInit /\ [][LoadNext]_vars

\* A step of Resolve or Reject, told by what it does to loads: the awaited
\* fetch of one load has settled.
FetchSettles ==
  \E i \in 1..Len(loads) : loads[i].pending /\ loads' = [loads EXCEPT ![i].pending = FALSE]

\* The same widget when every awaited fetch settles in the end, by resolving or
\* by rejecting.
LoadFairSpec == LoadInit /\ [][LoadNext]_vars /\ WF_loads(FetchSettles)

(***************************************************************************)
(* WidgetCard in LOCAL_FILE_MODE: the widget over an uploaded sheet        *)
(***************************************************************************)
MaxSheetRows == 2

\* The rows of an uploaded sheet: those above, and a second row with X = 2
\* whose other column is an ordinary one.
SheetPool ==
  RowPool \cup { << [k |-> FieldX, v |-> Num(2)], [k |-> FieldY, v |-> Str(<<"b">>)] >> }

\* _localDataRef: the uploaded sheet, empty or not
Sheets == SeqsUpTo(SheetPool, MaxSheetRows)

\* config.odataQuery of a widget over the sheet: every filter alone, the other
\* directives together, a $top that is no number, and two texts without a '?'
SheetQueries ==
  {QueryText(f, None, None, None) : f \in FilterTexts}
  \cup { QueryText(None, <<"X", " ", "d", "e", "s", "c">>, <<"Y", ",", " ", "X">>, <<"1">>),
         QueryText(None, None, None, <<"a", "b", "c">>),
         <<"/", "D", "a", "t", "a">>, <<"$", "t", "o", "p", "=", "0">> }

\* props.config of a widget over the sheet: the default keys, and the columns
\* of the sheet as grouping key and value key
SheetConfigs == { NoConfig, [xAxisKey |-> FieldY, dataKey |-> FieldX] }

\* The widget has been created over the sheet and has rendered once; its effect
\* has not run.
SheetInit ==
  /\ data \in Sheets
  /\ odataQuery = <<>>
  /\ called = FALSE
  /\ directives = NoDirectives
  /\ afterFilter = <<>>
  /\ afterSort = <<>>
  /\ afterSelect = <<>>
  /\ result = <<>>
  /\ raised = FALSE
  /\ FixIdle
  /\ config \in SheetConfigs
  /\ widgetData = <<>>
  /\ loading = TRUE
  /\ mounted = TRUE
  /\ loads = <<>>
  /\ lastSettled = NoSettle
  /\ filterValue = <<>>
  /\ xKey = Render(config, <<>>, <<>>).xKey
  /\ mainKey = Render(config, <<>>, <<>>).mainKey
  /\ filtered = Render(config, <<>>, <<>>).filtered
  /\ needsAggregation = Render(config, <<>>, <<>>).needsAggregation
  /\ processedData = Render(config, <<>>, <<>>).processedData
  /\ total = Render(config, <<>>, <<>>).total
  /\ average = Render(config, <<>>, <<>>).average

\* The effect runs after the mount: loadData calls
\* executeLocalQuery(_localDataRef, config.odataQuery), awaits nothing, and
\* runs to its end: setData(result) unless the call threw, setLoading(false),
\* and the render they cause.
LoadSheet ==
  /\ mounted
  /\ ~called
  /\ \E q \in SheetQueries :
       \E out \in executeLocalQuery(data, q) :
         /\ odataQuery' = q
         /\ called' = TRUE
         /\ directives' = out.directives
         /\ data' = out.data
         /\ afterFilter' = out.afterFilter
         /\ afterSort' = out.afterSort
         /\ afterSelect' = out.afterSelect
         /\ result' = out.result
         /\ raised' = out.raised
         /\ Settled(Append(Cleanup(loads), NewLoad), Len(loads) + 1,
                    [ok |-> ~out.raised, rows |-> out.result])
  /\ UNCHANGED <<config, filterValue, mounted, fixVars>>

SheetNext == LoadSheet \/ SetFilterValue

SheetSpec == SheetInit /\ [][SheetNext]_vars

(***************************************************************************)
(* fixODataQuery: inputs and state machine                                 *)
(***************************************************************************)
EntityOrders == <<"O", "r", "d", "e", "r", "s">>

TopOne == <<"$", "t", "o", "p", "=", "1">>

SelectFreight == <<"$", "s", "e", "l", "e", "c", "t", "=", "F", "r", "e", "i", "g", "h", "t">>

\* config.odataQuery of a parsed AI response
AiQueries ==
  { Absent, Text(<<>>), Text(<<" ">>), Text(<<" ", " ">>),
    Text(TopOne), Text(<<" ">> \o TopOne \o <<" ">>),
    Text(<<"?">> \o TopOne),
    Text(<<"/">> \o EntityOrders), Text(<<"/">> \o EntityOrders \o <<"?">> \o TopOne),
    Text(<<"/", "X", "/", "Y">>),
    Text(EntityOrders \o <<"?">> \o TopOne), Text(<<"o", "r", "d", "e", "r", "s">>),
    Text(<<"t", "o", "p", "=", "1">>),
    Text(SelectFreight), Text(<<" ", "/">> \o EntityOrders \o <<" ">>),
    Text(<<"O", "R", "D", "E", "R", "S", "(", "1", ")">>) }

\* config.entity of a parsed AI response
AiEntities ==
  { Absent, Text(<<>>), Text(<<" ">>), Text(EntityOrders), Text(<<" ">> \o EntityOrders),
    Text(<<"X">>) }

\* config.sqlQuery of a parsed AI response
AiSqlQueries == { Absent, Text(<<>>), Text(<<"S", "E", "L", "E", "C", "T", " ", "1">>) }

AiConfigs ==
  {[odataQuery |-> q, entity |-> e, sqlQuery |-> sql] : q \in AiQueries, e \in AiEntities, sql \in AiSqlQueries}

\* result = JSON.parse(response.text)
FixInit ==
  /\ QueryIdle
  /\ WidgetIdle
  /\ aiConfig \in AiConfigs
  /\ aiGiven = NoAiConfig
  /\ aiFixed = FALSE
  /\ aiService = NoService

\* result = fixODataQuery(result)
FixODataQuery ==
  /\ ~aiFixed
  /\ aiGiven' = aiConfig
  /\ aiConfig' = fixODataQuery(aiConfig)
  /\ aiFixed' = TRUE
  /\ aiService' = OdataService
  /\ UNCHANGED <<queryVars, widgetVars>>

\* result = fixODataQuery(result), in the service with the SQL modes (the
\* mode is 'odata' or 'file')
FixODataQuerySkipSql ==
  /\ ~aiFixed
  /\ aiGiven' = aiConfig
  /\ aiConfig' = fixODataQuerySkipSql(aiConfig)
  /\ aiFixed' = TRUE
  /\ aiService' = SqlService
  /\ UNCHANGED <<queryVars, widgetVars>>

FixNext == FixODataQuery \/ FixODataQuerySkipSql

FixSpec == FixInit /\ [][FixNext]_vars

(***************************************************************************)
(* Claims on WidgetCard                                                    *)
(***************************************************************************)
\* the widget has rendered delivered rows
Loaded == ~loading /\ widgetData # <<>>

\* config.dataKey, or `value` when none is supplied
SuppliedDataKey == IF config.dataKey # <<>> THEN config.dataKey ELSE KeyValue

(***************************************************************************)
(* C11: the value key is `actual` if any row of the result set, not only   *)
(* the first, has a field named `target`, overriding the supplied dataKey; *)
(* otherwise it is the supplied dataKey, or `value` when none is supplied. *)
(***************************************************************************)
C11_ValueKeyAnyRow ==
  Loaded =>
    mainKey = IF hasActualTarget_AnyRow(widgetData) THEN KeyActual ELSE SuppliedDataKey

\* the text is an optionally signed run of digits
IsNumberText(text) ==
  \/ AllDigits(text)
  \/ (text # <<>> /\ Head(text) = "-" /\ AllDigits(Tail(text)))

NumberOfText(text) ==
  IF Head(text) = "-" THEN 0 - ParseDigits(Tail(text), 0) ELSE ParseDigits(text, 0)

\* the value-key field of a row coerces to a number
Coerces(row) == ToNumber(Lookup(row, mainKey)).t = "num"

Coerced(row) == ToNumber(Lookup(row, mainKey)).n

\* the stringified grouping-key value of a row
GroupKey(row) == JsString(Lookup(row, xKey))

(***************************************************************************)
(* C12: when the free-text filter parses fully as a number, exactly the    *)
(* rows whose value-key field coerces to a number >= the filter number are *)
(* kept, in their order; a row whose value does not coerce is dropped.     *)
(***************************************************************************)
C12_NumericFilter ==
  IsNumberText(filterValue) =>
    filtered = SelectSeq(widgetData,
                 LAMBDA row : Coerces(row) /\ Coerced(row) >= NumberOfText(filterValue))

\* The filter 10 keeps a row of value 10 and drops a smaller and a non-numeric one.
C12_Witness ==
  /\ filterValue = <<"1", "0">>
  /\ \E i \in 1..Len(filtered) : Coerced(filtered[i]) = 10
  /\ \E i \in 1..Len(widgetData) : Coerces(widgetData[i]) /\ Coerced(widgetData[i]) < 10
  /\ \E i \in 1..Len(widgetData) : ~Coerces(widgetData[i])
  /\ Len(filtered) < Len(widgetData)

(***************************************************************************)
(* C13: when the free-text filter is not numeric, exactly the rows whose   *)
(* grouping-key field, stringified and lower-cased, contains the           *)
(* lower-cased filter text are kept; the value key plays no part.          *)
(***************************************************************************)
C13_TextFilter ==
  (filterValue # <<>> /\ ~IsNumberText(filterValue)) =>
    filtered = SelectSeq(widgetData,
                 LAMBDA row : Includes(ToLowerCase(GroupKey(row)), ToLowerCase(filterValue)))

\* two rows of filtered have the same stringified grouping key
KeyRepeats ==
  \E i, j \in 1..Len(filtered) : i < j /\ GroupKey(filtered[i]) = GroupKey(filtered[j])

(***************************************************************************)
(* C14: grouping is triggered if and only if two of the filtered rows have *)
(* the same stringified grouping key; otherwise the filtered rows are      *)
(* returned unchanged, with all their fields, in their order, unsorted.    *)
(***************************************************************************)
C14_GroupingTrigger ==
  /\ needsAggregation <=> KeyRepeats
  /\ ~KeyRepeats => processedData = filtered

\* Two rows with distinct keys come back as loaded, the lower value first.
C14_Witness ==
  /\ ~needsAggregation
  /\ Len(processedData) = 2
  /\ processedData = widgetData
  /\ Len(processedData[1]) >= 2
  /\ Coerced(processedData[1]) < Coerced(processedData[2])

\* the distinct stringified grouping keys of the filtered rows
GroupKeys == {GroupKey(filtered[i]) : i \in 1..Len(filtered)}

\* the sum claimed for a key: the coerced values, 1 for a value that does not coerce
RECURSIVE SumFrom(_, _)
SumFrom(key, i) ==
  IF i > Len(filtered) THEN 0
  ELSE (IF GroupKey(filtered[i]) # key THEN 0
        ELSE IF Coerces(filtered[i]) THEN Coerced(filtered[i]) ELSE 1) + SumFrom(key, i + 1)

\* the fields of a row, without their order
Fields(row) == {row[i] : i \in 1..Len(row)}

\* the row has exactly the two fields {xKey: key, mainKey: sum}
TwoFields(row, key) ==
  /\ Len(row) = 2
  /\ Fields(row) = { [k |-> xKey, v |-> Str(key)], [k |-> mainKey, v |-> Num(SumFrom(key, 1))] }

\* the row is the object {[xKey]: key, [mainKey]: sum}, whose second entry
\* replaces the first when both keys name the same field
KeyAndSum(row, key) ==
  IF xKey = mainKey
  THEN row = << [k |-> mainKey, v |-> Num(SumFrom(key, 1))] >>
  ELSE TwoFields(row, key)

(***************************************************************************)
(* C15, as stated: when grouping is triggered the result is exactly one    *)
(* row per distinct stringified grouping key, each with only the two       *)
(* fields {xKey: key, mainKey: sum}, a value that does not coerce to a     *)
(* number contributing 1.                                                  *)
(***************************************************************************)
C15_TwoFieldRows ==
  needsAggregation =>
    /\ Len(processedData) = Cardinality(GroupKeys)
    /\ \A key \in GroupKeys :
         \E p \in 1..Len(processedData) : TwoFields(processedData[p], key)

(***************************************************************************)
(* C15, amended: when grouping is triggered the result is exactly one row  *)
(* per distinct stringified grouping key, each the object {[xKey]: key,    *)
(* [mainKey]: sum}: two fields when the keys differ, the single field      *)
(* {mainKey: sum} when both keys name the same field.                      *)
(***************************************************************************)
C15_GroupedRows ==
  needsAggregation =>
    /\ Len(processedData) = Cardinality(GroupKeys)
    /\ \E at \in [GroupKeys -> 1..Len(processedData)] :
         /\ \A k1, k2 \in GroupKeys : k1 # k2 => at[k1] # at[k2]
         /\ \A key \in GroupKeys : KeyAndSum(processedData[at[key]], key)

\* A group of a numeric and a non-numeric value: 5 + 1.
C15_Witness ==
  /\ needsAggregation
  /\ xKey # mainKey
  /\ \E i, j \in 1..Len(filtered) :
       /\ GroupKey(filtered[i]) = GroupKey(filtered[j])
       /\ Coerces(filtered[i])
       /\ ~Coerces(filtered[j])
  /\ Len(processedData) < Len(filtered)
  /\ \E p \in 1..Len(processedData) : Lookup(processedData[p], mainKey) = Num(6)

(***************************************************************************)
(* C16: whenever grouping occurred the returned rows are ordered by the    *)
(* value key descending: each row's sum is >= the next row's.              *)
(***************************************************************************)
C16_Descending ==
  needsAggregation =>
    \A p \in 1..(Len(processedData) - 1) :
      /\ Lookup(processedData[p], mainKey).t = "num"
      /\ Lookup(processedData[p + 1], mainKey).t = "num"
      /\ Lookup(processedData[p], mainKey).n >= Lookup(processedData[p + 1], mainKey).n

\* The group met first has the smaller sum and is returned last.
C16_Witness ==
  /\ needsAggregation
  /\ xKey # mainKey
  /\ Len(processedData) >= 2
  /\ Lookup(processedData[1], xKey) # Str(GroupKey(filtered[1]))
  /\ Lookup(processedData[1], mainKey).n > Lookup(processedData[2], mainKey).n

(***************************************************************************)
(* C17, as stated: grouping is idempotent on its own output: the engine    *)
(* run again (same xKey and mainKey, no free-text filter) on the rows it   *)
(* returned after grouping triggers no grouping and returns the same rows. *)
(***************************************************************************)
C17_Idempotent ==
  needsAggregation =>
    /\ ~NeedsAggregation(processedData, mainKey, xKey)
    /\ ProcessData(processedData, <<>>, mainKey, xKey) = processedData

(***************************************************************************)
(* C17, amended: when the grouping key and the value key are different     *)
(* fields, grouping is idempotent on its own output.                       *)
(***************************************************************************)
C17_IdempotentDistinctKeys ==
  (needsAggregation /\ xKey # mainKey) =>
    /\ ~NeedsAggregation(processedData, mainKey, xKey)
    /\ ProcessData(processedData, <<>>, mainKey, xKey) = processedData

\* Three rows were grouped into two.
C17_Witness ==
  /\ needsAggregation
  /\ xKey # mainKey
  /\ Len(filtered) = 3
  /\ Len(processedData) = 2
  /\ ProcessData(processedData, <<>>, mainKey, xKey) = processedData

\* the total claimed: the coerced values, 0 for a value that does not coerce
RECURSIVE TotalFrom(_)
TotalFrom(i) ==
  IF i > Len(processedData) THEN 0
  ELSE (IF Coerces(processedData[i]) THEN Coerced(processedData[i]) ELSE 0) + TotalFrom(i + 1)

(***************************************************************************)
(* C18: total is the sum of the value-key field over exactly the returned  *)
(* rows, a non-numeric or missing value contributing 0; average is total   *)
(* divided by the number of returned rows, and 0 when there is none.       *)
(***************************************************************************)
C18_TotalAverage ==
  /\ total = TotalFrom(1)
  /\ average.den > 0
  /\ IF Len(processedData) = 0
     THEN average.num = 0
     ELSE average.num * Len(processedData) = total * average.den

\* Two ungrouped rows, one with a non-numeric value: total 5, average 5/2.
C18_Witness ==
  /\ ~needsAggregation
  /\ Len(processedData) = 2
  /\ \E i \in 1..2 : ~Coerces(processedData[i])
  /\ total = 5
  /\ average = [num |-> 5, den |-> 2]

(***************************************************************************)
(* C19: a load whose fetch settles after the widget was removed, or after  *)
(* its inputs changed again and a newer load started, is discarded: it     *)
(* sets neither the data nor the loading flag; only the newest load of a   *)
(* widget that is still on the page sets them, whatever the order in which *)
(* the fetches settle.                                                     *)
(***************************************************************************)
C19_StaleLoadDiscarded ==
  /\ lastSettled.id # 0 =>
       ((lastSettled.setData \/ lastSettled.setLoading) =>
          (lastSettled.id = lastSettled.newest /\ lastSettled.mounted))
  /\ \A i \in 1..Len(loads) : loads[i].isMounted => (i = Len(loads) /\ mounted)

\* An older load settled while a newer one is still awaited: nothing was set
\* and the widget still shows the loading state.
C19_Witness ==
  /\ Len(loads) >= 2
  /\ lastSettled.id # 0
  /\ lastSettled.id < lastSettled.newest
  /\ ~lastSettled.setData
  /\ ~lastSettled.setLoading
  /\ loads[Len(loads)].pending
  /\ loading

(***************************************************************************)
(* Claims on fixODataQuery                                                 *)
(***************************************************************************)
\* the query given is empty once trimmed (or there is none)
GivenQueryEmpty ==
  ~aiGiven.odataQuery.present \/ \A i \in 1..Len(aiGiven.odataQuery.s) : aiGiven.odataQuery.s[i] = " "

\* no entity name is known: none given, or only white space
GivenEntityUnknown ==
  ~aiGiven.entity.present \/ \A i \in 1..Len(aiGiven.entity.s) : aiGiven.entity.s[i] = " "

(***************************************************************************)
(* C20: fixODataQuery returns the query unchanged, without any prefix,     *)
(* when the trimmed query is empty or when no entity name is known.        *)
(***************************************************************************)
C20_NoAnchorUnchanged ==
  (aiFixed /\ (GivenQueryEmpty \/ GivenEntityUnknown)) => aiConfig = aiGiven

\* A query that would be repaired with an entity comes back as given without one.
C20_Witness ==
  /\ aiFixed
  /\ GivenEntityUnknown
  /\ aiGiven.odataQuery = Text(TopOne)
  /\ aiConfig.odataQuery = Text(TopOne)

\* the service that ran returned the configuration at its first line, because
\* it carries a sqlQuery
SqlSkipped == aiService = SqlService /\ HasSqlQuery(aiGiven)

\* the entity name E and the query q the repair works with: both trimmed
GivenEntity == TrimmedEntity(aiGiven)
GivenQuery == TrimmedQuery(aiGiven)

\* fixODataQuery ran its repair on a query with a known entity
Repaired == aiFixed /\ ~SqlSkipped /\ ~GivenQueryEmpty /\ ~GivenEntityUnknown

PlainQuery == GivenQuery[1] \notin {"$", "?", "/"}

\* q starts with E, letters compared without their case
QueryNamesEntity ==
  /\ Len(GivenQuery) >= Len(GivenEntity)
  /\ \A i \in 1..Len(GivenEntity) :
       ToLowerCase(<<GivenQuery[i]>>) = ToLowerCase(<<GivenEntity[i]>>)

C23_PathUnchanged ==
  (aiFixed /\ ~GivenQueryEmpty /\ GivenQuery[1] = "/") => aiConfig = aiGiven

\* The path `/X/Y` came back as given although the entity is Orders.
C23_Witness ==
  /\ aiFixed
  /\ ~SqlSkipped
  /\ GivenEntity = EntityOrders
  /\ aiGiven.odataQuery = Text(<<"/", "X", "/", "Y">>)
  /\ aiConfig.odataQuery = Text(<<"/", "X", "/", "Y">>)

\* fixODataQuery of the same service applied to the object it returned
FixedAgain ==
  IF aiService = SqlService THEN fixODataQuerySkipSql(aiConfig) ELSE fixODataQuery(aiConfig)

\* the call changed config.odataQuery
Rewritten == aiFixed /\ aiConfig.odataQuery # aiGiven.odataQuery

(***************************************************************************)
(* C28: fixODataQuery is idempotent: for every query and entity, applying  *)
(* it to its own output (same entity) returns that output unchanged, and   *)
(* whenever it rewrites the query the rewritten query starts with `/`.     *)
(***************************************************************************)
C28_Idempotent ==
  /\ aiFixed => (FixedAgain = aiConfig /\ aiConfig.entity = aiGiven.entity)
  /\ Rewritten => (aiConfig.odataQuery.present /\ StartsWith(aiConfig.odataQuery.s, <<"/">>))

\* `Orders?$top=1` was rewritten to `/Orders?$top=1`, which a second call keeps.
C28_Witness ==
  /\ Rewritten
  /\ aiGiven.odataQuery = Text(EntityOrders \o <<"?">> \o TopOne)
  /\ aiConfig.odataQuery = Text(<<"/">> \o EntityOrders \o <<"?">> \o TopOne)
  /\ FixedAgain = aiConfig

\* row i of the sheet is among the rows the filter step kept
KeptByFilter(i) == \E j \in 1..Len(afterFilter) : afterFilter[j] = data[i]

(***************************************************************************)
(* C26: for a single-condition $filter, whether a row passes depends only  *)
(* on the value of the referenced field in that row: two rows with the     *)
(* same value for that field are both kept or both removed, whatever other *)
(* fields they carry.                                                      *)
(***************************************************************************)
C26_SameValueSameVerdict ==
  (called /\ ~raised /\ SingleConditionFilter) =>
    \A i, j \in 1..Len(data) :
      Lookup(data[i], FilterField) = Lookup(data[j], FilterField) =>
        (KeptByFilter(i) <=> KeptByFilter(j))

\* the load of the sheet ran its try block to the end: setData(result) was
\* reached, the catch block was not
SheetDelivered == called /\ lastSettled.id = 1 /\ lastSettled.setData

(***************************************************************************)
(* C24: the core never raises for data-shape problems: for every           *)
(* collection (empty, rows with missing or non-numeric fields) and every   *)
(* query string or free-text filter, executeLocalQuery and the aggregation *)
(* step return a result instead of throwing, and an empty input yields an  *)
(* empty row set with total = 0 and average = 0.                           *)
(***************************************************************************)
C24_NeverRaises ==
  called =>
    /\ ~raised
    /\ SheetDelivered
    /\ widgetData = result
    /\ Len(processedData) <= Len(widgetData)
    /\ total \in Int
    /\ average.den > 0
    /\ (data = <<>>) => (result = <<>>)
    /\ (widgetData = <<>>) =>
         (processedData = <<>> /\ total = 0 /\ average = [num |-> 0, den |-> 1])

\* A row whose column header makes the pattern of the filter callback throw,
\* and which lacks the grouping key, went through the query and the
\* aggregation under a free-text filter.
C24_Witness ==
  /\ SheetDelivered
  /\ SingleConditionFilter
  /\ \E i \in 1..Len(widgetData) :
       /\ \E k \in 1..Len(Keys(widgetData[i])) : ~RegExpCompiles(Keys(widgetData[i])[k])
       /\ Lookup(widgetData[i], xKey) = Undefined
  /\ filterValue # <<>>
  /\ processedData # <<>>
  /\ total > 0

\* the number of a numeric free-text filter
Threshold == NumberOfText(filterValue)

\* a loaded row passes the numeric filter on its own
PassesThreshold(row) == Coerces(row) /\ Coerced(row) >= Threshold

\* the loaded rows with the grouping key `key`
RowsOfKey(key) == {i \in 1..Len(widgetData) : GroupKey(widgetData[i]) = key}

\* the sum of the values of the loaded rows i.. with that key, all of them
RECURSIVE RawSum(_, _)
RawSum(key, i) ==
  IF i > Len(widgetData) THEN 0
  ELSE (IF i \in RowsOfKey(key) /\ Coerces(widgetData[i]) THEN Coerced(widgetData[i]) ELSE 0)
       + RawSum(key, i + 1)

\* the sum of the values of the loaded rows i.. with that key that pass the
\* filter on their own
RECURSIVE PassedSum(_, _)
PassedSum(key, i) ==
  IF i > Len(widgetData) THEN 0
  ELSE (IF i \in RowsOfKey(key) /\ PassesThreshold(widgetData[i]) THEN Coerced(widgetData[i]) ELSE 0)
       + PassedSum(key, i + 1)

\* every loaded row with that key has a value below the filter number
AllBelowThreshold(key) ==
  \A i \in RowsOfKey(key) : Coerces(widgetData[i]) /\ Coerced(widgetData[i]) < Threshold

(***************************************************************************)
(* C25: the free-text filter is applied to the individual raw rows before  *)
(* duplicate detection and grouping, never to the grouped sums: with a     *)
(* numeric filter t, a key all of whose rows have value < t is absent from *)
(* the result even if the sum of its rows is >= t, and every grouped sum   *)
(* in the result is a sum only of rows that individually passed the        *)
(* filter.                                                                 *)
(***************************************************************************)
C25_FilterBeforeGrouping ==
  IsNumberText(filterValue) =>
    /\ \A i \in 1..Len(widgetData) :
         AllBelowThreshold(GroupKey(widgetData[i])) =>
           \A r \in 1..Len(processedData) : GroupKey(processedData[r]) # GroupKey(widgetData[i])
    /\ needsAggregation =>
         \A r \in 1..Len(processedData) :
           \E i \in 1..Len(widgetData) :
             /\ PassesThreshold(widgetData[i])
             /\ Lookup(processedData[r], mainKey) = Num(PassedSum(GroupKey(widgetData[i]), 1))
    /\ ~needsAggregation =>
         processedData = SelectSeq(widgetData, PassesThreshold)

\* Two rows of a key are each below the filter number and sum to at least it:
\* the key is absent from the result, which holds another key.
C25_Witness ==
  /\ IsNumberText(filterValue)
  /\ processedData # <<>>
  /\ \E i \in 1..Len(widgetData) :
       /\ AllBelowThreshold(GroupKey(widgetData[i]))
       /\ RawSum(GroupKey(widgetData[i]), 1) >= Threshold
       /\ \A r \in 1..Len(processedData) : GroupKey(processedData[r]) # GroupKey(widgetData[i])

\* the sum over the filtered, ungrouped rows i.. of the value-key field
\* coerced to a number, a value that does not coerce counted as 1
RECURSIVE UnitSum(_)
UnitSum(i) ==
  IF i > Len(filtered) THEN 0
  ELSE (IF Coerces(filtered[i]) THEN Coerced(filtered[i]) ELSE 1) + UnitSum(i + 1)

(***************************************************************************)
(* C27: grouping conserves the value mass: when grouping is triggered, the *)
(* total computed over the grouped rows equals the sum over the            *)
(* free-text-filtered ungrouped rows of the value-key field coerced to a   *)
(* number with non-numeric values counted as 1, and the number of grouped  *)
(* rows is at least 1 and strictly less than the number of ungrouped rows. *)
(***************************************************************************)
C27_MassConserved ==
  needsAggregation =>
    /\ total = UnitSum(1)
    /\ Len(processedData) >= 1
    /\ Len(processedData) < Len(filtered)

\* Three filtered rows, one of them without a numeric value, were grouped into
\* two rows whose total counts that row as 1.
C27_Witness ==
  /\ needsAggregation
  /\ filterValue # <<>>
  /\ Len(filtered) = 3
  /\ Len(processedData) = 2
  /\ \E i \in 1..Len(filtered) : ~Coerces(filtered[i])
  /\ \E i \in 1..Len(filtered) : Coerces(filtered[i]) /\ Coerced(filtered[i]) > 1
  /\ total = UnitSum(1)

(***************************************************************************)
(* Claims on the loads of WidgetCard, continued                            *)
(***************************************************************************)
\* the load started for the current inputs is awaited, and its effect has not
\* been cleaned up: the widget is mounted and its inputs have not changed
NewestAwaited ==
  Len(loads) > 0 /\ loads[Len(loads)].pending /\ loads[Len(loads)].isMounted

\* this step is the end of that load by a rejected fetch
NewestRejects ==
  /\ NewestAwaited
  /\ Len(loads') = Len(loads)
  /\ ~loads'[Len(loads)].pending
  /\ lastSettled'.id = Len(loads)
  /\ ~lastSettled'.setData

(***************************************************************************)
(* C29: when the load for the widget's current inputs fails (the fetch     *)
(* rejects) while the widget is still mounted and its inputs have not      *)
(* changed, the widget's data is left exactly as it was before that load   *)
(* started (the rows of the previous query stay displayed) and loading is  *)
(* set to false; no error state is recorded in the widget.                 *)
(***************************************************************************)
C29_FailedLoadKeepsData ==
  [][ /\ (NewestAwaited /\ NewestAwaited' /\ Len(loads') = Len(loads)) => widgetData' = widgetData
      /\ (Len(loads') = Len(loads) + 1 /\ loads'[Len(loads')].pending) => widgetData' = widgetData
      /\ NewestRejects =>
           /\ widgetData' = widgetData
           /\ loading' = FALSE
           /\ UNCHANGED <<config, filterValue, xKey, mainKey, filtered, needsAggregation,
                          processedData, total, average, mounted>>
    ]_vars

\* The second load of a mounted widget has failed: the rows of the first stay
\* displayed and the loading state is over.
C29_Witness ==
  /\ mounted
  /\ lastSettled.id = lastSettled.newest
  /\ lastSettled.id >= 2
  /\ lastSettled.id = Len(loads)
  /\ loads[Len(loads)].isMounted
  /\ ~lastSettled.setData
  /\ lastSettled.setLoading
  /\ widgetData # <<>>
  /\ processedData # <<>>
  /\ ~loading

(***************************************************************************)
(* C30: the loading flag tracks the newest load: from the moment the       *)
(* inputs change until the load started for those inputs settles, loading  *)
(* stays true even if older loads resolve or fail in between; and if the   *)
(* widget stays mounted, its inputs stop changing and the newest fetch     *)
(* settles (success or failure), loading eventually becomes false and      *)
(* stays false until the next input change.                                *)
(***************************************************************************)
C30_LoadingTracksNewest ==
  /\ []((Len(loads) > 0 /\ loads[Len(loads)].pending) => loading)
  /\ [][(~loading /\ Len(loads') = Len(loads)) => ~loading']_vars
  /\ \A n \in 1..MaxLoads :
       (mounted /\ Len(loads) = n) ~> (~loading \/ ~mounted \/ Len(loads) > n)

\* An older load has settled while the newest is still awaited and loading is
\* still true.
C30_Witness ==
  /\ mounted
  /\ Len(loads) >= 2
  /\ loads[Len(loads)].pending
  /\ lastSettled.id # 0
  /\ lastSettled.id < Len(loads)
  /\ loading

====
